---- MODULE Spec2Model ----
(***************************************************************************)
(* A model of carcover.py, the OLX car-cover scraper: the page loop of     *)
(* scrape_olx_car_covers, the per-container extraction, the two writers    *)
(* save_to_csv / save_to_json and the __main__ block that drives them.     *)
(*                                                                         *)
(* Text is a sequence of tokens (one-character or one-word strings), so    *)
(* that str.strip() and string concatenation are computed, not assumed.    *)
(* An optional value (the result of select_one, the process exit status,   *)
(* the run timestamp) is a sequence of length 0 or 1.                      *)
(***************************************************************************)
EXTENDS Integers, Sequences, FiniteSets, TLC

VARIABLES
    pc,            \* control location of the interpreter
    clock,         \* wall clock, in tenths of a second
    timestamp,     \* __main__'s `timestamp`: <<>> before line 111, then <<t>>
    page,          \* loop variable of `for page in range(1, num_pages + 1)`
    pending,       \* containers of listing_containers not yet iterated
    all_listings,  \* the accumulator of scrape_olx_car_covers
    files,         \* the file system: file name -> content (a sequence of lines)
    opened,        \* every open() call made so far, in order (file names)
    out,           \* every print() made so far, in order
    exit_status,   \* <<>> while the process runs, then <<status>>
    http,          \* every requests.get made so far: page, outcome, body returned
    skipped,       \* <<page, index>> of each container whose extraction raised
    sleeps,        \* every time.sleep made so far: the page it followed, its duration
    csv_calls,     \* every save_to_csv call so far: its arguments and outcome
    json_calls     \* every save_to_json call so far: its arguments and outcome

vars == <<pc, clock, timestamp, page, pending, all_listings, files, opened, out,
          exit_status, http, skipped, sleeps, csv_calls, json_calls>>

---------------------------------------------------------------------------
(* Bounds of the model *)

\* the most ads the search has in all, over the pages requested
MaxAds == 4

\* the most direct calls a caller that imports the module makes to the writers
MaxCalls == 2

---------------------------------------------------------------------------
(* Program constants *)

\* __main__ calls scrape_olx_car_covers(num_pages=3)
num_pages == 3

\* random.uniform(1.5, 3.5), in tenths of a second
MinDelay == 15

MaxDelay == 35

\* the durations the model draws from the delay interval: its two ends
Delays == {MinDelay, MaxDelay}

Whitespace == {" ", "\n", "\t"}

Origin == <<"https:", "/", "/", "www.olx.in">>

NoTitle == <<"No", " ", "Title">>

NoPrice == <<"No", " ", "Price">>

NoLocation == <<"No", " ", "Location">>

NoDate == <<"No", " ", "Date">>

\* key order of the dict literal `listing`
ListingKeys == <<"title", "price", "location", "date", "link">>

---------------------------------------------------------------------------
(* Text helpers *)

RECURSIVE lstrip(_)
lstrip(s) ==
    IF s # <<>> /\ Head(s) \in Whitespace THEN lstrip(Tail(s)) ELSE s

RECURSIVE rstrip(_)
rstrip(s) ==
    IF s # <<>> /\ s[Len(s)] \in Whitespace
    THEN rstrip(SubSeq(s, 1, Len(s) - 1))
    ELSE s

\* str.strip()
strip(s) == rstrip(lstrip(s))

\* datetime.now().strftime("%Y%m%d_%H%M%S"): resolution of one second
strftime(t) == t \div 10

---------------------------------------------------------------------------
(* The remote site: what the pages can contain *)

Absent == <<>>

Elem(text) == <<[text |-> text]>>

Anchor(attrs) == <<[attrs |-> attrs]>>

\* a container with only a title element, its text padded with whitespace
TitleOnly ==
    [title |-> Elem(<<" ", "Car", " ", "Cover", "\n">>), price |-> Absent,
     location |-> Absent, date |-> Absent, a |-> Absent]

\* a container with every element and a rooted href
Full ==
    [title |-> Elem(<<"Cover">>), price |-> Elem(<<" ", "Rs", "500">>),
     location |-> Elem(<<"Delhi">>), date |-> Elem(<<"Today">>),
     a |-> Anchor({<<"href", <<"/", "item", "/", "1">> >>})]

\* an ad whose title text is the words "No Title"; its anchor carries no href
TitledNoTitle ==
    [title |-> Elem(<<"No", " ", "Title">>), price |-> Absent,
     location |-> Elem(<<"Pune", " ">>), date |-> Absent,
     a |-> Anchor({<<"class", <<"x">> >>})]

\* an anchor whose href is a path without a leading slash
Unrooted ==
    [title |-> Absent, price |-> Elem(<<"Rs", "900", " ">>),
     location |-> Absent, date |-> Absent,
     a |-> Anchor({<<"href", <<"item", "/", "2">> >>})]

\* an anchor whose href is protocol-relative; a date element holding only a blank
ProtocolRelative ==
    [title |-> Elem(<<"Tarp">>), price |-> Absent, location |-> Absent,
     date |-> Elem(<<" ">>),
     a |-> Anchor({<<"href", <<"/", "/", "cdn", "/", "3">> >>})]

Kinds == <<TitleOnly, Full, TitledNoTitle, Unrooted, ProtocolRelative>>

\* the n containers result page p shows
SiteBody(p, n) ==
    [i \in 1..n |-> Kinds[((p + i - 2) % Len(Kinds)) + 1]]

\* the ways a GET can fail: requests raises, or raise_for_status raises
FetchErrors == {"ConnectionError", "HTTPError"}

\* the ways writing a file can end
IoOutcomes == {"ok", "open_error", "write_error"}

---------------------------------------------------------------------------
(* Extraction of one container *)

\* TextOr without the strip()
TextOr_NoStrip(elem, placeholder) ==
    IF elem # <<>> THEN elem[1].text ELSE placeholder

\* `x.text.strip() if x else "<placeholder>"`; a Tag is truthy whatever it holds
TextOr(elem, placeholder) ==
    IF elem # <<>> THEN strip(elem[1].text) ELSE placeholder

\* 'href' in link_elem.attrs
HasAttr(tag, name) == \E kv \in tag.attrs : kv[1] = name

\* link_elem['href']
Attr(tag, name) == (CHOOSE kv \in tag.attrs : kv[1] = name)[2]

\* "https://www.olx.in" + link_elem['href'] if link_elem and 'href' in link_elem.attrs else ""
LinkOf(link_elem) ==
    IF link_elem # <<>> /\ HasAttr(link_elem[1], "href")
    THEN Origin \o Attr(link_elem[1], "href")
    ELSE <<>>

\* the dict built from one container
ExtractListing(container) ==
    [title    |-> TextOr(container.title, NoTitle),
     price    |-> TextOr(container.price, NoPrice),
     location |-> TextOr(container.location, NoLocation),
     date     |-> TextOr(container.date, NoDate),
     link     |-> LinkOf(container.a)]

\* AppendListing appending the listing twice
AppendListing_Twice(acc, listing) == acc \o <<listing, listing>>

\* AppendListing inserting at the front
AppendListing_Front(acc, listing) == <<listing>> \o acc

\* all_listings.append(listing)
AppendListing(acc, listing) == Append(acc, listing)

\* AfterExtractError with the try around the whole container loop: the page ends
AfterExtractError_AbortPage(rest) == <<>>

\* what is left of the container loop after one container's extraction raised
AfterExtractError(rest) == rest

---------------------------------------------------------------------------
(* The page loop *)

\* the next iteration of `for page in range(1, num_pages + 1)`
ForNext(p) ==
    IF p < num_pages
    THEN [pc |-> "fetch", page |-> p + 1]
    ELSE [pc |-> "scraped", page |-> p]

\* AfterFetchError with the try around the whole page loop: the run ends
AfterFetchError_AbortRun(p) == [pc |-> "scraped", page |-> p]

\* where control goes once `except Exception as e` of a page has printed
AfterFetchError(p) == ForNext(p)

\* `if page < num_pages:` guarding the sleep
ShouldSleep(p) == p < num_pages

\* how many containers the pages fetched so far carried
RECURSIVE MatchedFrom(_)
MatchedFrom(i) ==
    IF i > Len(http) THEN 0 ELSE Len(http[i].body) + MatchedFrom(i + 1)

\* index, within its page, of the container at the head of `pending`
CurrentIndex == Len(http[Len(http)].body) - Len(pending) + 1

Say(msg, arg) == [msg |-> msg, arg |-> arg]

---------------------------------------------------------------------------
(* The writers *)

FileName(ts, ext) == [stem |-> "olx_car_covers", ts |-> ts, ext |-> ext]

\* the default of save_to_csv's `filename`
DefaultCsv == FileName(<<>>, ".csv")

\* the default of save_to_json's `filename`
DefaultJson == FileName(<<>>, ".json")

\* csv_filename with the timestamp taken when the file is written
csv_filename_Now == FileName(<<strftime(clock)>>, ".csv")

\* csv_filename = f"olx_car_covers_{timestamp}.csv"
csv_filename == FileName(timestamp, ".csv")

\* json_filename = f"olx_car_covers_{timestamp}.json"
json_filename == FileName(timestamp, ".json")

\* Truthy with the emptiness test left out
Truthy_Always(listings) == TRUE

\* `if not listings` / `if listings`
Truthy(listings) == listings # <<>>

\* writer.writeheader() then one writer.writerow per listing; a line is its cells
CsvContent(listings) ==
    LET fieldnames == ListingKeys
        header == [i \in 1..Len(fieldnames) |-> <<fieldnames[i]>>]
        row(l) == [i \in 1..Len(fieldnames) |-> l[fieldnames[i]]]
    IN  <<header>> \o [k \in 1..Len(listings) |-> row(listings[k])]

\* json.dump(listings, ...): one object per listing, its keys and values in dict order
JsonContent(listings) ==
    LET object(l) ==
            [j \in 1..(2 * Len(ListingKeys)) |->
                IF j % 2 = 1 THEN <<ListingKeys[(j + 1) \div 2]>>
                ELSE l[ListingKeys[j \div 2]]]
    IN  [k \in 1..Len(listings) |-> object(listings[k])]

\* what one writer does: the open() calls, the file left behind, the prints, and
\* whether an exception leaves the function.  open() may raise (no file is
\* created), or a write may raise after open() created the file (the `with`
\* closes it; it is left with nothing durable in it).
Writer(listings, filename, content, io) ==
    IF ~Truthy(listings)
    THEN [opens |-> <<>>, write |-> <<>>,
          prints |-> <<Say("No listings to save.", <<>>)>>, raised |-> FALSE]
    ELSE IF io = "open_error"
    THEN [opens |-> <<filename>>, write |-> <<>>, prints |-> <<>>, raised |-> TRUE]
    ELSE IF io = "write_error"
    THEN [opens |-> <<filename>>, write |-> <<[name |-> filename, content |-> <<>>]>>,
          prints |-> <<>>, raised |-> TRUE]
    ELSE [opens |-> <<filename>>,
          write |-> <<[name |-> filename, content |-> content]>>,
          prints |-> <<Say("Data saved to", <<filename>>)>>, raised |-> FALSE]

save_to_csv(listings, filename, io) ==
    Writer(listings, filename, CsvContent(listings), io)

save_to_json(listings, filename, io) ==
    Writer(listings, filename, JsonContent(listings), io)

\* open(name, 'w') creates or truncates, then the content is written
WriteFiles(fs, w) ==
    IF w = <<>> THEN fs
    ELSE [n \in DOMAIN fs \cup {w[1].name} |->
            IF n = w[1].name THEN w[1].content ELSE fs[n]]

\* the record kept of one writer call
Call(listings, filename, eff) ==
    [listings |-> listings, filename |-> filename, raised |-> eff.raised,
     opens |-> eff.opens, prints |-> eff.prints, requests |-> Len(http)]

\* an exception leaves __main__: the interpreter prints the traceback and exits 1
Uncaught == [pc |-> "exited", exit_status |-> <<1>>, prints |-> <<>>]

\* AfterSaveCsv with the exception caught and the run going on
AfterSaveCsv_Swallow(raised) ==
    [pc |-> "save_json", exit_status |-> <<>>, prints |-> <<>>]

\* after save_to_csv: nothing handles an exception; otherwise line 122 is next
AfterSaveCsv(raised) ==
    IF raised THEN Uncaught
    ELSE [pc |-> "save_json", exit_status |-> <<>>, prints |-> <<>>]

\* after save_to_json: nothing handles an exception; otherwise line 124 and the end
AfterSaveJson(raised) ==
    IF raised THEN Uncaught
    ELSE [pc |-> "exited", exit_status |-> <<0>>,
          prints |-> <<Say("Scraping completed successfully!", <<>>)>>]

---------------------------------------------------------------------------
(* Initial states: the file run as a script, or imported as a module *)

\* listing collections a caller that imports the module hands to the writers
Collections ==
    {<<>>,
     <<ExtractListing(TitleOnly)>>,
     <<ExtractListing(Full), ExtractListing(Unrooted)>>}

Init ==
    /\ pc \in {"start", "imported"}
    /\ clock = 0
    /\ timestamp = <<>>
    /\ page = 0
    /\ pending = <<>>
    /\ all_listings = <<>>
    /\ files = [n \in {} |-> <<>>]
    /\ opened = <<>>
    /\ out = <<>>
    /\ exit_status = <<>>
    /\ http = <<>>
    /\ skipped = {}
    /\ sleeps = <<>>
    /\ csv_calls = <<>>
    /\ json_calls = <<>>

---------------------------------------------------------------------------
(* scrape_olx_car_covers *)

\* line 111, then the call of line 114 up to the first iteration of the loop
Start ==
    /\ pc = "start"
    /\ timestamp' = <<strftime(clock)>>
    /\ all_listings' = <<>>
    /\ IF 1 <= num_pages
       THEN pc' = "fetch" /\ page' = 1
       ELSE pc' = "scraped" /\ page' = 0
    /\ UNCHANGED <<clock, pending, files, opened, out, exit_status, http,
                   skipped, sleeps, csv_calls, json_calls>>

\* requests.get and raise_for_status succeed; soup.select finds n containers
FetchOk ==
    /\ pc = "fetch"
    /\ \E n \in 0..(MaxAds - MatchedFrom(1)) :
        /\ http' = Append(http, [page |-> page, status |-> "ok",
                                 body |-> SiteBody(page, n),
                                 base |-> Len(all_listings)])
        /\ pending' = SiteBody(page, n)
    /\ out' = Append(out, Say("Scraping page", <<page>>))
    /\ pc' = "extract"
    /\ UNCHANGED <<clock, timestamp, page, all_listings, files, opened,
                   exit_status, skipped, sleeps, csv_calls, json_calls>>

\* requests.get or raise_for_status raises: the page's except prints, the loop goes on
FetchFail ==
    /\ pc = "fetch"
    /\ \E e \in FetchErrors :
        http' = Append(http, [page |-> page, status |-> e, body |-> <<>>,
                              base |-> Len(all_listings)])
    /\ out' = out \o <<Say("Scraping page", <<page>>),
                       Say("Error fetching page", <<page>>)>>
    /\ pc' = AfterFetchError(page).pc
    /\ page' = AfterFetchError(page).page
    /\ pending' = <<>>
    /\ UNCHANGED <<clock, timestamp, all_listings, files, opened, exit_status,
                   skipped, sleeps, csv_calls, json_calls>>

\* one iteration of the container loop that reaches all_listings.append
ExtractOk ==
    /\ pc = "extract"
    /\ pending # <<>>
    /\ all_listings' = AppendListing(all_listings, ExtractListing(Head(pending)))
    /\ pending' = Tail(pending)
    /\ UNCHANGED <<pc, clock, timestamp, page, files, opened, out, exit_status,
                   http, skipped, sleeps, csv_calls, json_calls>>

\* one iteration of the container loop whose try block raises
ExtractRaise ==
    /\ pc = "extract"
    /\ pending # <<>>
    /\ out' = Append(out, Say("Error extracting listing details", <<page>>))
    /\ skipped' = skipped \cup {<<page, CurrentIndex>>}
    /\ pending' = AfterExtractError(Tail(pending))
    /\ UNCHANGED <<pc, clock, timestamp, page, all_listings, files, opened,
                   exit_status, http, sleeps, csv_calls, json_calls>>

\* the container loop is over and a page follows: time.sleep, next iteration
Sleep ==
    /\ pc = "extract"
    /\ pending = <<>>
    /\ ShouldSleep(page)
    /\ \E d \in Delays :
        /\ clock' = clock + d
        /\ sleeps' = Append(sleeps, [after |-> page, duration |-> d])
    /\ pc' = ForNext(page).pc
    /\ page' = ForNext(page).page
    /\ UNCHANGED <<timestamp, pending, all_listings, files, opened, out,
                   exit_status, http, skipped, csv_calls, json_calls>>

\* the container loop is over and `page < num_pages` is false: no sleep
NoSleep ==
    /\ pc = "extract"
    /\ pending = <<>>
    /\ ~ShouldSleep(page)
    /\ pc' = ForNext(page).pc
    /\ page' = ForNext(page).page
    /\ UNCHANGED <<clock, timestamp, pending, all_listings, files, opened, out,
                   exit_status, http, skipped, sleeps, csv_calls, json_calls>>

\* print the total and return all_listings to __main__
Return ==
    /\ pc = "scraped"
    /\ out' = Append(out, Say("Total listings scraped", <<Len(all_listings)>>))
    /\ pc' = "main_if"
    /\ UNCHANGED <<clock, timestamp, page, pending, all_listings, files, opened,
                   exit_status, http, skipped, sleeps, csv_calls, json_calls>>

---------------------------------------------------------------------------
(* __main__ after the scrape *)

\* `if listings:` taken: save_to_csv(listings, csv_filename)
MainSaveCsv ==
    /\ pc = "main_if"
    /\ Truthy(all_listings)
    /\ \E io \in IoOutcomes :
        LET eff == save_to_csv(all_listings, csv_filename, io) IN
        /\ files' = WriteFiles(files, eff.write)
        /\ opened' = opened \o eff.opens
        /\ out' = out \o eff.prints \o AfterSaveCsv(eff.raised).prints
        /\ csv_calls' = Append(csv_calls, Call(all_listings, csv_filename, eff))
        /\ pc' = AfterSaveCsv(eff.raised).pc
        /\ exit_status' = AfterSaveCsv(eff.raised).exit_status
    /\ UNCHANGED <<clock, timestamp, page, pending, all_listings,
                   http, skipped, sleeps, json_calls>>

\* save_to_json(listings, json_filename), then the success message and the end
MainSaveJson ==
    /\ pc = "save_json"
    /\ \E io \in IoOutcomes :
        LET eff == save_to_json(all_listings, json_filename, io) IN
        /\ files' = WriteFiles(files, eff.write)
        /\ opened' = opened \o eff.opens
        /\ out' = out \o eff.prints \o AfterSaveJson(eff.raised).prints
        /\ json_calls' = Append(json_calls, Call(all_listings, json_filename, eff))
        /\ pc' = AfterSaveJson(eff.raised).pc
        /\ exit_status' = AfterSaveJson(eff.raised).exit_status
    /\ UNCHANGED <<clock, timestamp, page, pending, all_listings,
                   http, skipped, sleeps, csv_calls>>

\* the else branch: the diagnostic, and the script ends
MainNoData ==
    /\ pc = "main_if"
    /\ ~Truthy(all_listings)
    /\ out' = Append(out, Say("No data was scraped.", <<>>))
    /\ pc' = "exited"
    /\ exit_status' = <<0>>
    /\ UNCHANGED <<clock, timestamp, page, pending, all_listings, files, opened,
                   http, skipped, sleeps, csv_calls, json_calls>>

---------------------------------------------------------------------------
(* The writers called by a program that imports the module *)

CallSaveCsv ==
    /\ pc = "imported"
    /\ Len(csv_calls) + Len(json_calls) < MaxCalls
    /\ \E ls \in Collections, io \in IoOutcomes :
        LET eff == save_to_csv(ls, DefaultCsv, io) IN
        /\ files' = WriteFiles(files, eff.write)
        /\ opened' = opened \o eff.opens
        /\ out' = out \o eff.prints
        /\ csv_calls' = Append(csv_calls, Call(ls, DefaultCsv, eff))
    /\ UNCHANGED <<pc, clock, timestamp, page, pending, all_listings,
                   exit_status, http, skipped, sleeps, json_calls>>

CallSaveJson ==
    /\ pc = "imported"
    /\ Len(csv_calls) + Len(json_calls) < MaxCalls
    /\ \E ls \in Collections, io \in IoOutcomes :
        LET eff == save_to_json(ls, DefaultJson, io) IN
        /\ files' = WriteFiles(files, eff.write)
        /\ opened' = opened \o eff.opens
        /\ out' = out \o eff.prints
        /\ json_calls' = Append(json_calls, Call(ls, DefaultJson, eff))
    /\ UNCHANGED <<pc, clock, timestamp, page, pending, all_listings,
                   exit_status, http, skipped, sleeps, csv_calls>>

---------------------------------------------------------------------------

Next ==
    \/ Start
    \/ FetchOk
    \/ FetchFail
    \/ ExtractOk
    \/ ExtractRaise
    \/ Sleep
    \/ NoSleep
    \/ Return
    \/ MainSaveCsv
    \/ MainSaveJson
    \/ MainNoData
    \/ CallSaveCsv
    \/ CallSaveJson

Spec == Init /\ [][Next]_vars

---------------------------------------------------------------------------
(* Vocabulary of the properties *)

\* the script is running (or has run) scrape_olx_car_covers and __main__
Script == pc # "imported"

\* scrape_olx_car_covers has left its page loop
Returned == pc \in {"scraped", "main_if", "save_json", "exited"}

Requested == 1..Len(http)

Fetched(i) == http[i].status = "ok"

\* page i's iteration of the page loop is over
PageDone(i) == i < Len(http) \/ pc # "extract"

\* how many containers of page i the container loop has gone through
Processed(i) ==
    IF PageDone(i) THEN Len(http[i].body) ELSE Len(http[i].body) - Len(pending)

\* the part of the accumulator appended during page i's iteration
Contribution(i) ==
    SubSeq(all_listings, http[i].base + 1,
           IF i < Len(http) THEN http[i + 1].base ELSE Len(all_listings))

SkippedOf(i) == {k \in 1..Len(http[i].body) : <<i, k>> \in skipped}

\* containers k..n of page i whose extraction did not raise, in page order
RECURSIVE KeptFrom(_, _, _)
KeptFrom(i, k, n) ==
    IF k > n THEN <<>>
    ELSE (IF <<i, k>> \in skipped THEN <<>> ELSE <<http[i].body[k]>>)
         \o KeptFrom(i, k + 1, n)

Kept(i) == KeptFrom(i, 1, Processed(i))

\* the containers that yielded a listing so far, page by page
RECURSIVE SourcesFrom(_)
SourcesFrom(i) ==
    IF i > Len(http) THEN <<>> ELSE Kept(i) \o SourcesFrom(i + 1)

Sources == SourcesFrom(1)

ListingsOf(containers) ==
    [k \in 1..Len(containers) |-> ExtractListing(containers[k])]

Printed(msg) == \E j \in 1..Len(out) : out[j].msg = msg

---------------------------------------------------------------------------
(* C1 *)

\* C1: a failed GET costs only its own page.  Pages are requested in the order
\* 1, 2, ..., each at most once (no retry); a page whose GET failed adds nothing
\* to the accumulator; when the function returns every page 1..num_pages has
\* been requested, whatever failed before it, and each fetched page's listings
\* are in the returned list.
C1_FailedPageSkipped ==
    Script =>
        /\ Len(http) <= num_pages
        /\ \A i \in Requested : http[i].page = i
        /\ \A i \in Requested : ~Fetched(i) => Contribution(i) = <<>>
        /\ Returned =>
            /\ Len(http) = num_pages
            /\ \A i \in Requested :
                Fetched(i) => Contribution(i) = ListingsOf(Kept(i))

\* page 2 of 3 failed; pages 1 and 3 were fetched and their listings returned
C1_Witness ==
    /\ pc = "exited"
    /\ Len(http) = 3
    /\ Fetched(1) /\ ~Fetched(2) /\ Fetched(3)
    /\ Contribution(1) # <<>> /\ Contribution(3) # <<>>
    /\ Printed("Error fetching page")

---------------------------------------------------------------------------
(* C2 *)

\* C2 as stated: every fetched page adds exactly as many listings as it has
\* containers matching the selector.
C2_OneListingPerContainer ==
    Script =>
        \A i \in Requested :
            Fetched(i) /\ PageDone(i) =>
                Len(Contribution(i)) = Len(http[i].body)

\* C2 as amended: every fetched page adds exactly as many listings as it has
\* matching containers whose extraction did not raise; so never more than the
\* containers matched, and exactly as many when no extraction raised.
C2_OneListingPerExtractedContainer ==
    Script =>
        \A i \in Requested :
            Fetched(i) /\ PageDone(i) =>
                /\ Len(Contribution(i)) =
                       Len(http[i].body) - Cardinality(SkippedOf(i))
                /\ Len(Contribution(i)) <= Len(http[i].body)

\* a finished page with three containers, one of which raised, and two listings;
\* and another finished page that added one listing per container
C2_Witness ==
    /\ Returned
    /\ \E i \in Requested :
        /\ Fetched(i) /\ Len(http[i].body) = 3
        /\ Cardinality(SkippedOf(i)) = 1 /\ Len(Contribution(i)) = 2
    /\ \E i \in Requested :
        /\ Fetched(i) /\ Len(http[i].body) = 1
        /\ SkippedOf(i) = {} /\ Len(Contribution(i)) = 1

---------------------------------------------------------------------------
(* C3 *)

\* C3: an exception in one container's extraction skips that container only.
\* On a page where some extraction raised, the page is still a fetched page,
\* the container loop goes on with the containers after it (`pending` is what
\* follows the ones gone through), every other container of the page yields
\* its listing, in order, and the pages after it are still requested.
C3_OnlyTheContainerSkipped ==
    Script =>
        \A i \in Requested :
            SkippedOf(i) # {} =>
                /\ Fetched(i)
                /\ ~PageDone(i) =>
                       pending = SubSeq(http[i].body, Processed(i) + 1,
                                        Len(http[i].body))
                /\ Contribution(i) = ListingsOf(Kept(i))
                /\ Returned => Len(http) = num_pages

\* the middle container of a three-container page raised on page 1: the first
\* and the third yielded their listings and pages 2 and 3 were requested
C3_Witness ==
    /\ Returned
    /\ Len(http) = 3
    /\ Len(http[1].body) = 3
    /\ SkippedOf(1) = {2}
    /\ Contribution(1) =
           <<ExtractListing(http[1].body[1]), ExtractListing(http[1].body[3])>>

---------------------------------------------------------------------------
(* C4 *)

TextFields == {"title", "price", "location", "date"}

Placeholder(f) ==
    CASE f = "title" -> NoTitle
      [] f = "price" -> NoPrice
      [] f = "location" -> NoLocation
      [] f = "date" -> NoDate

\* v is t without its leading and trailing whitespace
IsTrimOf(v, t) ==
    /\ v # <<>> => v[1] \notin Whitespace /\ v[Len(v)] \notin Whitespace
    /\ \E a \in 0..(Len(t) - Len(v)) :
        /\ v = SubSeq(t, a + 1, a + Len(v))
        /\ \A j \in 1..a : t[j] \in Whitespace
        /\ \A j \in (a + Len(v) + 1)..Len(t) : t[j] \in Whitespace

\* listing l has the five keys, a placeholder for each text element container c
\* lacks and the trimmed text of each it has, and the empty link without anchor
FilledFrom(l, c) ==
    /\ DOMAIN l = {"title", "price", "location", "date", "link"}
    /\ \A f \in TextFields :
        /\ c[f] = <<>> => l[f] = Placeholder(f)
        /\ c[f] # <<>> => IsTrimOf(l[f], c[f][1].text)
    /\ c.a = <<>> => l.link = <<>>

\* C4 as stated: every listing has exactly the five keys; each text field holds
\* its placeholder exactly when the container lacks the element, and the
\* element's trimmed text otherwise.
C4_PlaceholderIffAbsent ==
    LET src == Sources IN
    /\ Len(all_listings) = Len(src)
    /\ \A j \in 1..Len(all_listings) :
        /\ FilledFrom(all_listings[j], src[j])
        /\ \A f \in TextFields :
            all_listings[j][f] = Placeholder(f) <=> src[j][f] = <<>>

\* C4 as amended: every listing has exactly the five keys; each text field
\* holds its placeholder when the container lacks the element, and the
\* element's trimmed text otherwise; a field that reads as the placeholder
\* comes from a container that lacks the element or whose element's trimmed
\* text is the placeholder's own words.
C4_PlaceholderWhenAbsent ==
    LET src == Sources IN
    /\ Len(all_listings) = Len(src)
    /\ \A j \in 1..Len(all_listings) :
        /\ FilledFrom(all_listings[j], src[j])
        /\ \A f \in TextFields :
            all_listings[j][f] = Placeholder(f) =>
                \/ src[j][f] = <<>>
                \/ IsTrimOf(Placeholder(f), src[j][f][1].text)

\* the accumulator holds the listing of a container with only a title element,
\* and the listing of an ad whose title element reads "No Title"
C4_Witness ==
    LET src == Sources IN
    /\ \E j \in 1..Len(all_listings) :
        /\ src[j].title # <<>> /\ src[j].price = <<>>
        /\ src[j].location = <<>> /\ src[j].date = <<>>
        /\ src[j].a = <<>>
        /\ all_listings[j] =
               [title |-> <<"Car", " ", "Cover">>, price |-> NoPrice,
                location |-> NoLocation, date |-> NoDate, link |-> <<>>]
    /\ \E j \in 1..Len(all_listings) :
        src[j].title # <<>> /\ all_listings[j].title = NoTitle

---------------------------------------------------------------------------
(* C5 *)

\* C5: the link is empty when the container has no anchor or the anchor has no
\* href; otherwise it is the origin followed by the href, and exactly one slash
\* separates the origin from the path, whatever the href.
C5_LinkWellFormed ==
    LET src == Sources IN
    /\ Len(all_listings) = Len(src)
    /\ \A j \in 1..Len(all_listings) :
        LET link == all_listings[j].link
            a == src[j].a
            n == Len(Origin)
        IN  IF a = <<>> \/ ~HasAttr(a[1], "href")
            THEN link = <<>>
            ELSE /\ link = Origin \o Attr(a[1], "href")
                 /\ Len(link) > n /\ link[n + 1] = "/"
                 /\ ~(Len(link) > n + 1 /\ link[n + 2] = "/")

---------------------------------------------------------------------------
(* C6 *)

\* file f holds a header line and one row per listing of ls, in order, each
\* row the listing's values in key order
CsvHolds(f, ls) ==
    /\ Len(f) = Len(ls) + 1
    /\ f[1] = <<<<"title">>, <<"price">>, <<"location">>, <<"date">>, <<"link">>>>
    /\ \A k \in 1..Len(ls) :
        f[k + 1] = <<ls[k].title, ls[k].price, ls[k].location, ls[k].date,
                     ls[k].link>>

\* file f holds one object per listing of ls, in order
JsonHolds(f, ls) ==
    /\ Len(f) = Len(ls)
    /\ \A k \in 1..Len(ls) :
        f[k] = <<<<"title">>, ls[k].title, <<"price">>, ls[k].price,
                 <<"location">>, ls[k].location, <<"date">>, ls[k].date,
                 <<"link">>, ls[k].link>>

\* C6: the accumulator is the traversal order (page by page, and container by
\* container within a page, of the containers that yielded a listing), nothing
\* removed, reordered or deduplicated; both writers are handed that sequence,
\* and a writer that completes leaves one row / one object per listing in
\* that order.
C6_TraversalOrderWritten ==
    LET expected == ListingsOf(Sources) IN
    Script =>
        /\ all_listings = expected
        /\ \A j \in 1..Len(csv_calls) :
            /\ csv_calls[j].listings = expected
            /\ ~csv_calls[j].raised =>
                /\ csv_calls[j].filename \in DOMAIN files
                /\ CsvHolds(files[csv_calls[j].filename], expected)
        /\ \A j \in 1..Len(json_calls) :
            /\ json_calls[j].listings = expected
            /\ ~json_calls[j].raised =>
                /\ json_calls[j].filename \in DOMAIN files
                /\ JsonHolds(files[json_calls[j].filename], expected)

\* a complete run that wrote both files with listings of pages 1, 2 and 3, two
\* of them equal
C6_Witness ==
    /\ pc = "exited" /\ exit_status = <<0>>
    /\ Len(http) = 3
    /\ Len(Contribution(1)) = 2 /\ Len(Contribution(2)) >= 1
    /\ Len(Contribution(3)) >= 1
    /\ \E j, k \in 1..Len(all_listings) :
        j < k /\ all_listings[j] = all_listings[k]
    /\ Cardinality(DOMAIN files) = 2

---------------------------------------------------------------------------
(* C7 *)

SleepsAfter(k) == {j \in 1..Len(sleeps) : sleeps[j].after = k}

\* C7: between the request for page k and the request for page k+1 there is
\* exactly one pause, of a duration within the delay interval, whatever the
\* outcome of the fetch of page k; there is no pause after the last page.
C7_PauseBetweenFetches ==
    Script =>
        /\ \A k \in 1..(num_pages - 1) :
            Len(http) >= k + 1 => Cardinality(SleepsAfter(k)) = 1
        /\ \A j \in 1..Len(sleeps) :
            /\ sleeps[j].after < num_pages
            /\ sleeps[j].duration \in MinDelay..MaxDelay

---------------------------------------------------------------------------
(* C8 *)

AllCalls == {csv_calls[j] : j \in 1..Len(csv_calls)}
                \cup {json_calls[j] : j \in 1..Len(json_calls)}

\* C8: a run that accumulated no listing ends with no file created, no open()
\* made and the no-data diagnostic as its last message; and a writer called
\* with an empty collection opens no file, whoever calls it: every open() and
\* every file belongs to a call that was given listings.
C8_NothingWrittenWhenEmpty ==
    /\ (pc = "exited" /\ all_listings = <<>>) =>
        /\ DOMAIN files = {}
        /\ opened = <<>>
        /\ csv_calls = <<>> /\ json_calls = <<>>
        /\ out[Len(out)].msg = "No data was scraped."
    /\ \A c \in AllCalls :
        c.listings = <<>> =>
            /\ c.opens = <<>>
            /\ ~c.raised
            /\ Len(c.prints) = 1 /\ c.prints[1].msg = "No listings to save."
    /\ \A j \in 1..Len(opened) :
        \E c \in AllCalls : c.listings # <<>> /\ c.filename = opened[j]
    /\ \A n \in DOMAIN files :
        \E c \in AllCalls : c.listings # <<>> /\ c.filename = n
    /\ Printed("No data was scraped.") <=> (pc = "exited" /\ all_listings = <<>>)

\* a run that ended empty-handed for all three reasons: a page that failed, a
\* page with no container, and a page whose every container was skipped
C8_Witness ==
    /\ pc = "exited" /\ all_listings = <<>>
    /\ \E i \in Requested : ~Fetched(i)
    /\ \E i \in Requested : Fetched(i) /\ http[i].body = <<>>
    /\ \E i \in Requested :
        Fetched(i) /\ http[i].body # <<>>
        /\ Cardinality(SkippedOf(i)) = Len(http[i].body)

---------------------------------------------------------------------------
(* C9 *)

RECURSIVE SleptFrom(_)
SleptFrom(j) ==
    IF j > Len(sleeps) THEN 0 ELSE sleeps[j].duration + SleptFrom(j + 1)

\* the clock when the script started
StartClock == clock - SleptFrom(1)

\* call c was made after the last page, over the complete accumulator, with
\* the file name of the run's one timestamp, taken before scraping
EndOfRunCall(c, ext) ==
    /\ c.requests = num_pages
    /\ Returned
    /\ c.listings = all_listings
    /\ c.filename = FileName(timestamp, ext)
    /\ timestamp = <<strftime(StartClock)>>

\* C9 as stated: a run that ends with a non-empty accumulator has invoked the
\* CSV write and the JSON write exactly once each, after the last page, over
\* the same complete list, with file names built from the one timestamp
\* computed before scraping started.
C9_BothWritersOnce ==
    (pc = "exited" /\ all_listings # <<>>) =>
        /\ Len(csv_calls) = 1 /\ EndOfRunCall(csv_calls[1], ".csv")
        /\ Len(json_calls) = 1 /\ EndOfRunCall(json_calls[1], ".json")

\* C9 as amended: a run that ends with a non-empty accumulator has invoked the
\* CSV write exactly once, and the JSON write exactly once if the CSV write
\* returned and not at all if the CSV write raised; no writer is invoked
\* before the last page has been processed, each is handed the complete list,
\* and the file names are built from the one timestamp computed before
\* scraping started.
C9_CsvOnceThenJsonOnce ==
    Script =>
        /\ Len(csv_calls) <= 1 /\ Len(json_calls) <= 1
        /\ \A j \in 1..Len(csv_calls) : EndOfRunCall(csv_calls[j], ".csv")
        /\ \A j \in 1..Len(json_calls) : EndOfRunCall(json_calls[j], ".json")
        /\ json_calls # <<>> => csv_calls # <<>> /\ ~csv_calls[1].raised
        /\ (pc = "exited" /\ all_listings # <<>>) =>
            /\ Len(csv_calls) = 1
            /\ Len(json_calls) = (IF csv_calls[1].raised THEN 0 ELSE 1)

\* a run that slept, then invoked both writers once each with the start's timestamp
C9_Witness ==
    /\ pc = "exited" /\ all_listings # <<>>
    /\ Len(sleeps) = 2
    /\ strftime(clock) # strftime(StartClock)
    /\ Len(csv_calls) = 1 /\ Len(json_calls) = 1
    /\ csv_calls[1].filename.ts = json_calls[1].filename.ts

---------------------------------------------------------------------------
(* C10 *)

Raised(calls) == \E j \in 1..Len(calls) : calls[j].raised

\* C10: a write failure is not recovered, and only a write failure reaches the
\* exit status.  Once the CSV write has raised the JSON write is never
\* attempted; once either write has raised the success message is not printed
\* and the process ends with a status other than 0; a run in which no write
\* raised ends with status 0 whatever pages failed and whatever containers
\* were skipped.
C10_WriteFailurePropagates ==
    Script =>
        /\ Raised(csv_calls) => json_calls = <<>>
        /\ (Raised(csv_calls) \/ Raised(json_calls)) =>
            /\ ~Printed("Scraping completed successfully!")
            /\ pc = "exited"
            /\ exit_status # <<>> /\ exit_status[1] # 0
        /\ pc = "exited" =>
            /\ exit_status # <<>>
            /\ exit_status[1] = 0 <=> ~(Raised(csv_calls) \/ Raised(json_calls))
        /\ pc # "exited" => exit_status = <<>>

\* the CSV write raised in a run that had a failed page and a skipped container
\* before it: the process ended with status 1 and never tried the JSON write
C10_Witness ==
    /\ pc = "exited" /\ exit_status = <<1>>
    /\ Raised(csv_calls) /\ json_calls = <<>>
    /\ \E i \in Requested : ~Fetched(i)
    /\ skipped # {}

====
